---- MODULE Spec2Model ----
(***************************************************************************)
(* A model of autolysis.py: the pipeline of main() (analyze_data,          *)
(* visualize_data, refine_analysis_with_llm, generate_narrative_with_      *)
(* visuals, create_readme) over a loaded dataset, with the completion      *)
(* service and the chart renderer as the environment.                      *)
(***************************************************************************)
EXTENDS Naturals, Sequences, FiniteSets, TLC

VARIABLES
    df,         \* the loaded DataFrame: column kinds and, per row, the columns whose cell is missing
    pc,         \* position of main(): analyze, visualize, refine, round, narrative, readme, done, crashed
    analysis,   \* the analysis dict (a function from its keys to their values)
    charts,     \* main's list `charts`, as returned by visualize_data
    feedback,   \* the local `feedback` of refine_analysis_with_llm (a Python value)
    iteration,  \* number of loop iterations of refine_analysis_with_llm that have completed
    saved,      \* every file written by plt.savefig so far, in the order written
    obtained,   \* number of feedback values refine_analysis_with_llm has obtained so far
    inspected,  \* for each inspection of `feedback`, which obtained value (1st, 2nd, ...) it read
    updates,    \* number of "Updated analysis" requests sent so far
    narrative,  \* main's `narrative`
    readme,     \* the chart references written to README.md, in order (<<>> before it is written)
    error       \* the uncaught exception that ended the run ("" while there is none)

vars == <<df, pc, analysis, charts, feedback, iteration, saved, obtained,
          inspected, updates, narrative, readme, error>>

---------------------------------------------------------------------------
(* Bounds of the model *)

\* most columns of a dataset whose rows carry missing cells
MaxCols == 2
\* most rows of a dataset
MaxRows == 5
\* most columns of a (complete, one-row) wide dataset
MaxWideCols == 7

(* Program constants *)

K_INITIAL == 3
K_REFINED == 4
PCA_COMPONENTS == 2
HIST_LIMIT == 5
ITERATIONS == 3
PAIRPLOT_MAX_ROWS == 1000

csv_filename == "data.csv"
folder_name == "data"

---------------------------------------------------------------------------
(* Python values: a str or None, tagged so that both can be told apart *)

PyStr(s) == [type |-> "str", val |-> s]
PyNone == [type |-> "NoneType", val |-> ""]
\* a local that has not been assigned (or whose frame is gone)
Unset == [type |-> "unset", val |-> ""]
IsStr(v) == v.type = "str"

---------------------------------------------------------------------------
(* The DataFrame.  kinds[c] is the dtype class of column c; rows[r] is the  *)
(* set of columns whose cell is missing (NaN) in row r.                    *)

ColNames == <<"a", "b", "c", "d", "e", "f", "g", "h">>

Columns(d) == 1..Len(d.kinds)

\* df.select_dtypes(include=[np.number]).columns, in column order
RECURSIVE NumericFrom(_, _)
NumericFrom(d, c) ==
    IF c > Len(d.kinds) THEN <<>>
    ELSE (IF d.kinds[c] = "num" THEN <<c>> ELSE <<>>) \o NumericFrom(d, c + 1)

select_dtypes_number(d) == NumericFrom(d, 1)

Range(s) == {s[i] : i \in 1..Len(s)}

\* rows of df.select_dtypes(include=[np.number]).dropna(): the rows none of
\* whose numeric cells is missing
IsCompleteNumeric(d, r) == d.rows[r] \cap Range(select_dtypes_number(d)) = {}

dropna_numeric(d) == {r \in 1..Len(d.rows) : IsCompleteNumeric(d, r)}

\* df.isnull().sum().to_dict(): per column, the number of missing cells
isnull_sum(d) == [c \in Columns(d) |-> Cardinality({r \in 1..Len(d.rows) : c \in d.rows[r]})]

\* df.mean(): defined for a numeric column with at least one value present
\* (NaN for an all-missing column; text columns have no mean)
HasMean(d, c) == d.kinds[c] = "num" /\ \E r \in 1..Len(d.rows) : c \notin d.rows[r]

\* df.fillna(df.mean()): a new frame; cells of columns with a mean are filled
fillna_mean(d) ==
    [kinds |-> d.kinds,
     rows |-> [r \in 1..Len(d.rows) |-> {c \in d.rows[r] : ~HasMean(d, c)}]]

HasText(d) == \E c \in Columns(d) : d.kinds[c] = "text"

---------------------------------------------------------------------------
(* Datasets the run may have loaded (load_csv returned).  A narrow dataset  *)
(* has up to MaxCols columns and up to MaxRows rows, of which the first m   *)
(* miss their cell in one column; a header-only file has object columns     *)
(* only.  A wide dataset has one complete row.                              *)

RECURSIVE KindSeqs(_)
KindSeqs(n) ==
    IF n = 0 THEN {<<>>}
    ELSE {Append(s, k) : s \in KindSeqs(n - 1), k \in {"num", "text"}}

PrefixMissing(n, m, c) == [r \in 1..n |-> IF r <= m THEN {c} ELSE {}]

NarrowDatasets ==
    {[kinds |-> ks, rows |-> PrefixMissing(n, m, c)] :
        ks \in UNION {KindSeqs(w) : w \in 1..MaxCols},
        n \in 0..MaxRows, m \in 0..MaxRows, c \in 1..MaxCols}

WideKinds(w) ==
    {[c \in 1..w |-> "num"], [c \in 1..w |-> IF c = 2 THEN "text" ELSE "num"]}

WideDatasets ==
    {[kinds |-> ks, rows |-> <<{}>>] :
        ks \in UNION {WideKinds(w) : w \in (MaxCols + 1)..MaxWideCols}}

IsLoadable(d) ==
    /\ \A r \in 1..Len(d.rows) : d.rows[r] \subseteq Columns(d)
    /\ Len(d.rows) = 0 => \A c \in Columns(d) : d.kinds[c] = "text"

Datasets == {d \in NarrowDatasets \cup WideDatasets : IsLoadable(d)}

---------------------------------------------------------------------------
(* analyze_data *)

DictSet(d, k, v) == [x \in DOMAIN d \cup {k} |-> IF x = k THEN v ELSE d[x]]

NumSamples(d) == Cardinality(dropna_numeric(d))
NumFeatures(d) == Len(select_dtypes_number(d))

\* sklearn rejects an array with no sample or no feature, and KMeans one with
\* fewer samples than clusters
KMeansFits(samples, features, k) == samples >= 1 /\ features >= 1 /\ samples >= k

\* PCA(n_components) needs n_components <= min(n_samples, n_features)
PCAFits(samples, features, n) == samples >= n /\ features >= n

KMeansLabels(samples, k) == [n_clusters |-> k, n_labels |-> samples]

\* faulty variant of BasicAnalysis: line 93 left out
BasicAnalysisWithoutHighCorrelation(d) ==
    [k \in {"summary_statistics", "missing_values", "data_types",
            "correlation_matrix", "outliers"} |->
        CASE k = "summary_statistics" ->
                [c \in Columns(d) |-> Len(d.rows) - isnull_sum(d)[c]]
          [] k = "missing_values" -> isnull_sum(d)
          [] k = "data_types" -> d.kinds
          [] k = "correlation_matrix" -> select_dtypes_number(d)
          [] k = "outliers" -> select_dtypes_number(d)]

BasicAnalysis(d) ==
    [k \in {"summary_statistics", "missing_values", "data_types",
            "correlation_matrix", "outliers", "high_correlation"} |->
        CASE k = "summary_statistics" ->
                [c \in Columns(d) |-> Len(d.rows) - isnull_sum(d)[c]]
          [] k = "missing_values" -> isnull_sum(d)
          [] k = "data_types" -> d.kinds
          [] k = "correlation_matrix" -> select_dtypes_number(d)
          [] k = "outliers" -> select_dtypes_number(d)
          [] k = "high_correlation" -> select_dtypes_number(d)]

WithTTests(d, a) ==
    IF NumFeatures(d) > 1
    THEN DictSet(a, "t_tests",
            {<<i, j>> \in Range(select_dtypes_number(d)) \X Range(select_dtypes_number(d)) : i < j})
    ELSE a

WithClusters(d, a) ==
    IF KMeansFits(NumSamples(d), NumFeatures(d), K_INITIAL)
    THEN DictSet(a, "clusters", KMeansLabels(NumSamples(d), K_INITIAL))
    ELSE a

WithPCA(d, a) ==
    IF PCAFits(NumSamples(d), NumFeatures(d), PCA_COMPONENTS)
    THEN DictSet(a, "pca", [n_components |-> PCA_COMPONENTS, n_rows |-> NumSamples(d)])
    ELSE a

analyze_data(d) == WithPCA(d, WithClusters(d, WithTTests(d, BasicAnalysis(d))))

---------------------------------------------------------------------------
(* request_llm.  A JSON value is tagged with its Python type; a dict is a   *)
(* function from its keys.  The service answers with one of Responses.      *)

JDict(f) == [type |-> "dict", val |-> f]
JList(s) == [type |-> "list", val |-> s]
EmptyDict == JDict(<<>>)

\* texts the service may return as the content of its first choice
Texts ==
    {"",
     "Looks good, improve the clustering",
     "Please improve clustering results",
     "Improve clustering, but first Focus On Missing Values",
     "Add more visualizations",
     "More Visualizations, then IMPROVE CLUSTERING"}

Contents == {PyStr(t) : t \in Texts} \cup {PyNone}

Message(content) == JDict("content" :> content)
Choice(message) == JDict("message" :> message)
Body(choices) == JDict("choices" :> choices)

Bodies ==
    {EmptyDict,                                   \* no "choices"
     Body(JList(<<>>)),                           \* empty "choices"
     Body(PyNone),                                \* "choices": null
     Body(JList(<<EmptyDict>>)),                  \* no "message"
     Body(JList(<<Choice(PyNone)>>)),             \* "message": null
     Body(JList(<<Choice(EmptyDict)>>))}          \* no "content"
    \cup {Body(JList(<<Choice(Message(c))>>)) : c \in Contents}

\* an exception raised inside the try block of request_llm
Raised == [type |-> "exception", val |-> ""]
IsRaised(v) == v.type = "exception"

Responses ==
    {[kind |-> "network_error", status |-> 0, json |-> Raised],
     [kind |-> "http", status |-> 500, json |-> Raised],
     [kind |-> "http", status |-> 200, json |-> Raised]}   \* body is not JSON
    \cup {[kind |-> "http", status |-> 200, json |-> b] : b \in Bodies}

\* d.get(key, default); AttributeError when d is no dict
Get(d, key, default) ==
    IF IsRaised(d) \/ d.type # "dict" THEN Raised
    ELSE IF key \in DOMAIN d.val THEN d.val[key] ELSE default

\* l[0]; IndexError on an empty list, TypeError on None, KeyError on a dict
First(l) ==
    IF IsRaised(l) \/ l.type # "list" \/ Len(l.val) = 0 THEN Raised
    ELSE l.val[1]

\* response.raise_for_status() followed by response.json()
ResponseJson(resp) ==
    IF resp.kind # "http" \/ resp.status < 200 \/ resp.status >= 300
    THEN Raised
    ELSE resp.json

request_llm(resp) ==
    LET content == Get(Get(First(Get(ResponseJson(resp), "choices", JList(<<EmptyDict>>))),
                           "message", EmptyDict),
                       "content", PyStr(""))
    IN  IF IsRaised(content) THEN PyStr("") ELSE content

\* what request_llm may return
Replies == {request_llm(resp) : resp \in Responses}

---------------------------------------------------------------------------
(* str.lower() and the `in` operator on strings *)

UpperCase == "ABCDEFGHIJKLMNOPQRSTUVWXYZ"
LowerCase == "abcdefghijklmnopqrstuvwxyz"

LowerChar(ch) ==
    IF \E i \in 1..Len(UpperCase) : SubSeq(UpperCase, i, i) = ch
    THEN LET i == CHOOSE j \in 1..Len(UpperCase) : SubSeq(UpperCase, j, j) = ch
         IN  SubSeq(LowerCase, i, i)
    ELSE ch

RECURSIVE LowerFrom(_, _)
LowerFrom(s, i) ==
    IF i > Len(s) THEN "" ELSE LowerChar(SubSeq(s, i, i)) \o LowerFrom(s, i + 1)

lower(s) == LowerFrom(s, 1)

Contains(s, sub) ==
    \E i \in 1..(Len(s) + 1) :
        i + Len(sub) - 1 <= Len(s) /\ SubSeq(s, i, i + Len(sub) - 1) = sub

\* faulty variant of Branch: the chain without .lower()
BranchCaseSensitive(text) ==
    IF Contains(text, "focus on missing values") THEN "refining_missing"
    ELSE IF Contains(text, "improve clustering") THEN "refining_clusters"
    ELSE IF Contains(text, "more visualizations") THEN "refining_visuals"
    ELSE "no_match"

\* the if / elif / elif chain of the loop body
Branch(text) ==
    IF Contains(lower(text), "focus on missing values") THEN "refining_missing"
    ELSE IF Contains(lower(text), "improve clustering") THEN "refining_clusters"
    ELSE IF Contains(lower(text), "more visualizations") THEN "refining_visuals"
    ELSE "no_match"

\* the branch each text of the service selects
BranchOf == [text \in Texts |-> Branch(text)]

---------------------------------------------------------------------------
(* Chart files *)

join(dir, name) == dir \o "/" \o name

\* os.path.basename: what follows the last "/"
RECURSIVE BasenameFrom(_, _)
BasenameFrom(path, i) ==
    IF i = 0 THEN path
    ELSE IF SubSeq(path, i, i) = "/" THEN SubSeq(path, i + 1, Len(path))
    ELSE BasenameFrom(path, i - 1)

basename(path) == BasenameFrom(path, Len(path))

Take(s, n) == SubSeq(s, 1, IF n < Len(s) THEN n ELSE Len(s))

\* faulty variant of VizPlan: a histogram for every numeric column
VizPlanAllNumeric(d) ==
    LET numeric_cols == select_dtypes_number(d)
    IN  <<join(folder_name, "correlation_heatmap.png"),
          join(folder_name, "missing_values_heatmap.png")>>
        \o [i \in 1..Len(numeric_cols) |->
                join(folder_name, "distribution_" \o ColNames[numeric_cols[i]] \o ".png")]
        \o (IF Len(numeric_cols) > 1 THEN <<join(folder_name, "pairplot.png")>> ELSE <<>>)

\* the charts visualize_data renders, in the order it renders them
VizPlan(d) ==
    LET numeric_cols == select_dtypes_number(d)
        shown == Take(numeric_cols, HIST_LIMIT)
    IN  <<join(folder_name, "correlation_heatmap.png"),
          join(folder_name, "missing_values_heatmap.png")>>
        \o [i \in 1..Len(shown) |->
                join(folder_name, "distribution_" \o ColNames[shown[i]] \o ".png")]
        \o (IF Len(numeric_cols) > 1 THEN <<join(folder_name, "pairplot.png")>> ELSE <<>>)

\* the files the "more visualizations" branch saves, in the order it saves them
RefinePlan(d, dataset_name) ==
    LET numeric_cols == select_dtypes_number(d)
    IN  [i \in 1..Len(numeric_cols) |->
            dataset_name \o "_histogram_" \o ColNames[numeric_cols[i]] \o ".png"]
        \o (IF Len(numeric_cols) >= 2
            THEN <<dataset_name \o "_scatter_" \o ColNames[numeric_cols[1]]
                    \o "_vs_" \o ColNames[numeric_cols[2]] \o ".png">>
            ELSE <<>>)
        \o (IF Len(d.rows) <= PAIRPLOT_MAX_ROWS
            THEN <<dataset_name \o "_pairplot.png">>
            ELSE <<>>)

\* whether chart i of VizPlan(d) can render at all: sns.heatmap raises on an
\* empty matrix, that is the correlation of no numeric column (line 254) or
\* the null mask of no row (line 262)
VizRenders(d, i) ==
    /\ i = 1 => NumFeatures(d) >= 1
    /\ i = 2 => Len(d.rows) >= 1

\* whether file i of RefinePlan(d, dataset_name) can render at all:
\* sns.pairplot raises on a frame without numeric columns (line 233), and
\* such a frame has no other file
RefineRenders(d, i) == NumFeatures(d) >= 1

\* the image references create_readme writes
ReadmeCharts(cs) == [i \in 1..Len(cs) |-> "./" \o basename(cs[i])]

---------------------------------------------------------------------------
(* The refinements of the loop body *)

\* line 198: the new value of analysis['missing_values']
RefinedMissing(d) == isnull_sum(fillna_mean(d))

\* faulty variant of FrameAfterFillna: fillna(..., inplace=True)
FrameAfterFillnaInPlace(d) == fillna_mean(d)

\* line 198 leaves df alone: fillna returns a new frame
FrameAfterFillna(d) == d

\* faulty variant of RefinedClusters: the fit without .dropna()
RefinedClustersAllRows(d) == KMeansLabels(Len(d.rows), K_REFINED)

\* lines 204-206: the labels of the 4-cluster fit on the scaled complete numeric rows
RefinedClusters(d) == KMeansLabels(NumSamples(d), K_REFINED)

\* lines 204-205 raise when the scaler or the fit rejects the data
RefinedClustersFit(d) == KMeansFits(NumSamples(d), NumFeatures(d), K_REFINED)

\* the keys generate_narrative_with_visuals subscripts (KeyError when absent)
NarrativeKeys == {"summary_statistics", "missing_values", "high_correlation"}

\* the keys create_readme subscripts
ReadmeKeys == {"data_types", "summary_statistics", "missing_values"}

---------------------------------------------------------------------------
(* main() from the loaded dataset on *)

Init ==
    /\ df \in Datasets
    /\ pc = "analyze"
    /\ analysis = <<>>
    /\ charts = <<>>
    /\ feedback = Unset
    /\ iteration = 0
    /\ saved = <<>>
    /\ obtained = 0
    /\ inspected = <<>>
    /\ updates = 0
    /\ narrative = Unset
    /\ readme = <<>>
    /\ error = ""

\* an exception nobody catches ends the run
Uncaught(e) ==
    /\ pc' = "crashed"
    /\ error' = e

\* Step 2: initial_analysis = analyze_data(df)
AnalyzeData ==
    /\ pc = "analyze"
    /\ analysis' = analyze_data(df)
    /\ pc' = "visualize"
    /\ UNCHANGED <<df, charts, feedback, iteration, saved, obtained, inspected,
                   updates, narrative, readme, error>>

\* Step 3: charts = visualize_data(df, folder_name); the charts up to
\* failed_at render and the next one raises (none when failed_at =
\* Len(VizPlan(df))), which the except clause swallows
VisualizeData ==
    /\ pc = "visualize"
    /\ \E failed_at \in 0..Len(VizPlan(df)) :
          /\ \A i \in 1..failed_at : VizRenders(df, i)
          /\ charts' = Take(VizPlan(df), failed_at)
          /\ saved' = saved \o Take(VizPlan(df), failed_at)
    /\ pc' = "refine"
    /\ UNCHANGED <<df, analysis, feedback, iteration, obtained, inspected,
                   updates, narrative, readme, error>>

\* lines 188-190: the first feedback is the narrative of the unrefined
\* analysis with an empty chart list
RefineStart ==
    /\ pc = "refine"
    /\ IF NarrativeKeys \subseteq DOMAIN analysis
       THEN /\ \E reply \in Replies : feedback' = reply
            /\ obtained' = obtained + 1
            /\ pc' = "round"
            /\ error' = error
       ELSE /\ Uncaught("key_error")
            /\ UNCHANGED <<feedback, obtained>>
    /\ UNCHANGED <<df, analysis, charts, iteration, saved, inspected, updates,
                   narrative, readme>>

\* line 196 on a feedback that is no str: feedback.lower() raises
RoundNotText ==
    /\ pc = "round"
    /\ ~IsStr(feedback)
    /\ Uncaught("feedback_not_text")
    /\ UNCHANGED <<df, analysis, charts, feedback, iteration, saved, obtained,
                   inspected, updates, narrative, readme>>

\* faulty variant of Inspect: the request of line 237 made before the chain
InspectAfterRequest == inspected' = Append(inspected, obtained + 1)

\* line 196 reads the feedback obtained last
Inspect == inspected' = Append(inspected, obtained)

\* line 237 and the loop header: the round ends with one request
AskUpdated ==
    /\ \E reply \in Replies : feedback' = reply
    /\ updates' = updates + 1
    /\ obtained' = obtained + 1
    /\ iteration' = iteration + 1
    /\ pc' = IF iteration + 1 = ITERATIONS THEN "narrative" ELSE "round"
    /\ error' = error

\* lines 196-198.  df.mean() over a frame with a text column raises
\* TypeError from pandas 2.0 on and skips the column before
RoundMissing ==
    /\ pc = "round"
    /\ IsStr(feedback)
    /\ BranchOf[feedback.val] = "refining_missing"
    /\ Inspect
    /\ \E mean_raises \in BOOLEAN :
          IF mean_raises /\ HasText(df)
          THEN /\ Uncaught("mean_type_error")
               /\ UNCHANGED <<df, analysis, feedback, updates, obtained, iteration>>
          ELSE /\ analysis' = DictSet(analysis, "missing_values", RefinedMissing(df))
               /\ df' = FrameAfterFillna(df)
               /\ AskUpdated
    /\ UNCHANGED <<charts, saved, narrative, readme>>

\* lines 200-206
RoundClusters ==
    /\ pc = "round"
    /\ IsStr(feedback)
    /\ BranchOf[feedback.val] = "refining_clusters"
    /\ Inspect
    /\ IF RefinedClustersFit(df)
       THEN /\ analysis' = DictSet(analysis, "clusters", RefinedClusters(df))
            /\ AskUpdated
       ELSE /\ Uncaught("clustering_fit_failure")
            /\ UNCHANGED <<analysis, feedback, updates, obtained, iteration>>
    /\ UNCHANGED <<df, charts, saved, narrative, readme>>

\* lines 208-235; the files up to failed_at render and the next one raises
\* (none when failed_at = Len(RefinePlan(df, csv_filename)))
RoundVisuals ==
    /\ pc = "round"
    /\ IsStr(feedback)
    /\ BranchOf[feedback.val] = "refining_visuals"
    /\ Inspect
    /\ \E failed_at \in 0..Len(RefinePlan(df, csv_filename)) :
          /\ \A i \in 1..failed_at : RefineRenders(df, i)
          /\ saved' = saved \o Take(RefinePlan(df, csv_filename), failed_at)
          /\ IF failed_at = Len(RefinePlan(df, csv_filename))
             THEN AskUpdated
             ELSE /\ Uncaught("chart_render_failure")
                  /\ UNCHANGED <<feedback, updates, obtained, iteration>>
    /\ UNCHANGED <<df, analysis, charts, narrative, readme>>

\* no branch of the chain matches
RoundNoMatch ==
    /\ pc = "round"
    /\ IsStr(feedback)
    /\ BranchOf[feedback.val] = "no_match"
    /\ Inspect
    /\ AskUpdated
    /\ UNCHANGED <<df, analysis, charts, saved, narrative, readme>>

\* Step 5: narrative = generate_narrative_with_visuals(refined_analysis,
\* csv_filename, charts); a chart that cannot be encoded is left out of the
\* prompt.  The frame of refine_analysis_with_llm is gone.
FinalNarrative ==
    /\ pc = "narrative"
    /\ IF NarrativeKeys \subseteq DOMAIN analysis
       THEN /\ \E reply \in Replies : narrative' = reply
            /\ pc' = "readme"
            /\ error' = error
       ELSE /\ Uncaught("key_error")
            /\ UNCHANGED narrative
    /\ feedback' = Unset
    /\ UNCHANGED <<df, analysis, charts, iteration, saved, obtained, inspected,
                   updates, readme>>

\* Step 6: create_readme(refined_analysis, narrative, charts, ...)
CreateReadme ==
    /\ pc = "readme"
    /\ IF ReadmeKeys \subseteq DOMAIN analysis
       THEN /\ readme' = ReadmeCharts(charts)
            /\ pc' = "done"
            /\ error' = error
       ELSE /\ Uncaught("key_error")
            /\ UNCHANGED readme
    /\ UNCHANGED <<df, analysis, charts, feedback, iteration, saved, obtained,
                   inspected, updates, narrative>>

Next ==
    \/ AnalyzeData
    \/ VisualizeData
    \/ RefineStart
    \/ RoundNotText
    \/ RoundMissing
    \/ RoundClusters
    \/ RoundVisuals
    \/ RoundNoMatch
    \/ FinalNarrative
    \/ CreateReadme

Spec == Init /\ [][Next]_vars

---------------------------------------------------------------------------
(* Properties *)

IsPrefix(s, t) == Len(s) <= Len(t) /\ \A i \in 1..Len(s) : s[i] = t[i]

\* refine_analysis_with_llm has returned to main
Returned == pc \in {"narrative", "readme", "done"}

\* the trigger phrases, highest priority first
Triggers == <<"focus on missing values", "improve clustering", "more visualizations">>

\* the phrases a text holds, whatever its case
Matched(text) == {i \in 1..Len(Triggers) : Contains(lower(text), Triggers[i])}

\* the highest-priority phrase of a text (0 when it holds none)
Priority(text) ==
    IF Matched(text) = {} THEN 0
    ELSE CHOOSE i \in Matched(text) : \A j \in Matched(text) : i <= j

PriorityOf == [text \in Texts |-> Priority(text)]

\* the keys on which two dicts differ
ChangedKeys(a, b) ==
    {k \in DOMAIN a \cup DOMAIN b :
        k \notin DOMAIN a \/ k \notin DOMAIN b \/ a[k] # b[k]}

\* a round is about to inspect a text
InspectingText == pc = "round" /\ IsStr(feedback)

\* C1: whatever texts the service returns, refine_analysis_with_llm ends
\* only after 3 rounds, each closed by one "Updated analysis" request.
C1_ThreeRoundsWhateverTheTexts ==
    (Returned \/ (pc = "crashed" /\ error # "feedback_not_text"))
        => iteration = 3 /\ updates = 3

\* C2: the report of a completed run references every chart file saved
\* during the run, in the order saved, those of the "more visualizations"
\* branch included.
C2_ReportReferencesEverySavedChart ==
    pc = "done" => readme = ReadmeCharts(saved)

\* C3: request_llm always returns a text, so every feedback the loop
\* inspects and the narrative are strings.
C3_RepliesAreText ==
    /\ feedback # Unset => IsStr(feedback)
    /\ narrative # Unset => IsStr(narrative)

\* C4: once the dataset is loaded, no chart render failure and no clustering
\* fit failure ends the run.
C4_RecoverableFailureNeverEndsRun ==
    error \notin {"clustering_fit_failure", "chart_render_failure"}

\* what a step from a round that inspects a text may do, by the priority p
\* of the text
C5_BranchStep ==
    InspectingText =>
        LET p == PriorityOf[feedback.val]
            completes == pc' # "crashed"
        IN  /\ p = 0 => completes /\ analysis' = analysis /\ saved' = saved
            /\ p = 1 => /\ saved' = saved
                        /\ ChangedKeys(analysis, analysis') \subseteq {"missing_values"}
                        /\ completes =>
                              analysis'["missing_values"] = isnull_sum(fillna_mean(df))
                        /\ ~completes => error' = "mean_type_error"
            /\ p = 2 => /\ saved' = saved
                        /\ ChangedKeys(analysis, analysis') \subseteq {"clusters"}
                        /\ completes =>
                              /\ "clusters" \in DOMAIN analysis'
                              /\ analysis'["clusters"].n_clusters = 4
                        /\ ~completes => error' = "clustering_fit_failure"
            /\ p = 3 => /\ analysis' = analysis
                        /\ IsPrefix(saved, saved')
                        /\ completes =>
                              saved' = saved \o RefinePlan(df, csv_filename)
                        /\ ~completes => error' = "chart_render_failure"

MandatoryKeys ==
    {"summary_statistics", "missing_values", "data_types",
     "correlation_matrix", "outliers", "high_correlation"}

C6_MandatoryKeysPresent ==
    pc # "analyze" => MandatoryKeys \subseteq DOMAIN analysis

\* the report is written from an analysis that was refined and in which
\* neither the clustering nor the PCA of analyze_data succeeded
C6_Witness ==
    /\ pc = "done"
    /\ "clusters" \notin DOMAIN analysis
    /\ "pca" \notin DOMAIN analysis
    /\ analysis["missing_values"] # isnull_sum(df)

\* C7: the cluster labels, when present, are as many as the rows of the
\* dataset none of whose numeric cells is missing, at most the row count.
CompleteNumericRows ==
    {r \in 1..Len(df.rows) :
        \A c \in 1..Len(df.kinds) : df.kinds[c] = "num" => c \notin df.rows[r]}

C7_LabelCount ==
    (pc # "analyze" /\ "clusters" \in DOMAIN analysis) =>
        /\ analysis["clusters"].n_labels = Cardinality(CompleteNumericRows)
        /\ analysis["clusters"].n_labels <= Len(df.rows)

\* the clustering branch has relabelled a dataset with an incomplete row
C7_Witness ==
    /\ "clusters" \in DOMAIN analysis
    /\ analysis["clusters"].n_clusters = 4
    /\ analysis["clusters"].n_labels < Len(df.rows)

\* the fixed chart sequence of visualize_data: the two heatmaps, a histogram
\* for each of the first five numeric columns in column order, and the
\* pairplot when there is more than one numeric column
NumericColumns == {c \in 1..Len(df.kinds) : df.kinds[c] = "num"}

Before(S, c) == Cardinality({x \in S : x < c})

Nth(S, i) == CHOOSE c \in S : Before(S, c) = i - 1

FirstFiveNumeric == {c \in NumericColumns : Before(NumericColumns, c) < 5}

ExpectedCharts ==
    <<"data/correlation_heatmap.png", "data/missing_values_heatmap.png">>
    \o [i \in 1..Cardinality(FirstFiveNumeric) |->
            "data/distribution_" \o ColNames[Nth(FirstFiveNumeric, i)] \o ".png"]
    \o (IF Cardinality(NumericColumns) > 1 THEN <<"data/pairplot.png">> ELSE <<>>)

C8_ChartsArePrefix ==
    /\ pc \notin {"analyze", "visualize"} => IsPrefix(charts, ExpectedCharts)
    /\ pc = "refine" => charts = saved /\ error = ""

\* C8: visualize_data raises nothing and returns a prefix of its fixed chart
\* sequence, the charts saved before the first failing render; no path ever
\* leaves the list.
C8_VisualizeData ==
    /\ []C8_ChartsArePrefix
    /\ [][IsPrefix(charts, charts')]_vars

\* a render failed among the histograms of a dataset with more than five
\* numeric columns, of which the second column is text
C8_Witness ==
    /\ pc = "refine"
    /\ Cardinality(NumericColumns) > 5
    /\ df.kinds[2] = "text"
    /\ Len(charts) = 6

\* what a step may change of the dataset and, from a round that inspects a
\* text of priority p, of the analysis
C9_RoundStep ==
    /\ df' = df
    /\ InspectingText =>
          LET p == PriorityOf[feedback.val]
              changed == ChangedKeys(analysis, analysis')
          IN  /\ Cardinality(changed) <= 1
              /\ p = 1 => changed \subseteq {"missing_values"}
              /\ p = 2 => changed \subseteq {"clusters"}
              /\ p \in {0, 3} => changed = {}
              /\ (p = 1 /\ pc' # "crashed") =>
                    analysis'["missing_values"] = isnull_sum(fillna_mean(df))

\* C9: a round changes at most one key of the analysis, missing_values
\* (counted on an imputed copy) in the missing-values branch and clusters in
\* the clustering branch, and no step changes the dataset.
C9_RoundFrame == [][C9_RoundStep]_vars

\* the missing-values branch has recounted on the imputed copy while the
\* dataset still has its missing cells
C9_Witness ==
    /\ pc = "round"
    /\ analysis["missing_values"] # isnull_sum(df)
    /\ \E r \in 1..Len(df.rows) : df.rows[r] # {}

\* round k inspects the k-th feedback obtained; at the return 4 were
\* obtained, 3 of them by "Updated analysis" requests, and the first 3 inspected
C10_InspectionOrder ==
    /\ pc = "round" => /\ obtained = iteration + 1
                       /\ inspected = [i \in 1..iteration |-> i]
    /\ Returned => obtained = 4 /\ updates = 3 /\ inspected = <<1, 2, 3>>

\* C10: round k inspects the k-th feedback obtained; when the function
\* returns, 4 were obtained and only the first 3 inspected, and nothing is
\* refined afterwards, whatever the 4th says.
C10_LastFeedbackDiscarded ==
    /\ []C10_InspectionOrder
    /\ [][Returned => analysis' = analysis /\ saved' = saved]_vars

\* the function returned the unrefined analysis although the last response
\* asks for a clustering the dataset allows
C10_Witness ==
    /\ pc = "narrative"
    /\ feedback = PyStr("Please improve clustering results")
    /\ RefinedClustersFit(df)
    /\ analysis = analyze_data(df)
    /\ saved = charts

====
